---- MODULE Spec2Model ----
(***************************************************************************)
(* Model of process_uploaded_file (src/app.py) and of what it calls:       *)
(* src/parser.py, src/preprocess.py, src/compute.py, src/models.py,        *)
(* src/config.py.                                                          *)
(*                                                                         *)
(* One upload is parsed and its ride threaded through the default pipeline *)
(*   ConvertSpeedToKmh -> SortAndCalculateTimeDiff -> ValidatePowerData -> *)
(*   MarkStops -> CalculateAcceleration -> CalculateSpeedVariability ->    *)
(*   MarkNonCruising                                                       *)
(* and the two calculators, one stage per step; the loop of MarkStops and  *)
(* the three clearing statements of MarkNonCruising are stepped statement  *)
(* by statement.  A stage that raises leaves pc = "raised" for the except  *)
(* clause of process_uploaded_file.                                        *)
(*                                                                         *)
(* Numbers: Python floats are modelled as exact rationals [n, d] in lowest *)
(* terms with d > 0; a missing value (None in a Record, NaN in a DataFrame *)
(* column) is the record with d = 0.  Roots are taken to a fixed precision *)
(* (see Sqrt and Root).                                                    *)
(***************************************************************************)
EXTENDS Integers, Sequences, FiniteSets, TLC

VARIABLES fit, records, conf, pc, i, stop_event_active, current_stop_duration,
          stop_start_index, avg_speed_std_cruising, cruising_on_entry, result,
          np_result, returned, exc

vars == <<fit, records, conf, pc, i, stop_event_active, current_stop_duration,
          stop_start_index, avg_speed_std_cruising, cruising_on_entry, result,
          np_result, returned, exc>>

(***************************************************************************)
(* Bounds of the model.                                                    *)
(***************************************************************************)
MaxLen == 4
MaxTime == 3

(***************************************************************************)
(* Rational arithmetic with a missing value, as pandas/numpy treat NaN:    *)
(* arithmetic propagates it, every comparison with it is false.            *)
(***************************************************************************)
Abs(x) == IF x < 0 THEN -x ELSE x

RECURSIVE GCD(_, _)
GCD(a, b) == IF b = 0 THEN a ELSE GCD(b, a % b)

NaN == [n |-> 0, d |-> 0]

IsNaN(x) == x.d = 0

NotNa(x) == x.d # 0

Frac(n, d) ==
    IF d = 0 THEN NaN
    ELSE LET s == IF d < 0 THEN -1 ELSE 1
             g == GCD(Abs(n), Abs(d))
         IN  [n |-> (s * n) \div g, d |-> (s * d) \div g]

R(k) == [n |-> k, d |-> 1]

RAdd(a, b) == IF IsNaN(a) \/ IsNaN(b) THEN NaN ELSE Frac(a.n * b.d + b.n * a.d, a.d * b.d)

RSub(a, b) == IF IsNaN(a) \/ IsNaN(b) THEN NaN ELSE Frac(a.n * b.d - b.n * a.d, a.d * b.d)

RMul(a, b) == IF IsNaN(a) \/ IsNaN(b) THEN NaN ELSE Frac(a.n * b.n, a.d * b.d)

\* Only used with b # 0 (the code guards its divisors).
RDiv(a, b) == IF IsNaN(a) \/ IsNaN(b) \/ b.n = 0 THEN NaN ELSE Frac(a.n * b.d, a.d * b.n)

RLt(a, b) == NotNa(a) /\ NotNa(b) /\ a.n * b.d < b.n * a.d

RLe(a, b) == NotNa(a) /\ NotNa(b) /\ a.n * b.d <= b.n * a.d

RGt(a, b) == RLt(b, a)

RGe(a, b) == RLe(b, a)

RAbs(a) == IF IsNaN(a) THEN NaN ELSE [n |-> Abs(a.n), d |-> a.d]

\* Series.fillna(v)
FillNa(a, v) == IF IsNaN(a) THEN v ELSE a

\* Series.sum(): missing values are skipped, the empty sum is 0.
RECURSIVE SumSeq(_)
SumSeq(s) == IF s = <<>> THEN R(0)
             ELSE RAdd(FillNa(Head(s), R(0)), SumSeq(Tail(s)))

SelectNotNa(s) == SelectSeq(s, LAMBDA x : NotNa(x))

\* Series.mean(): mean of the non-missing values, missing when there is none.
MeanSeq(s) ==
    LET v == SelectNotNa(s)
    IN  IF Len(v) = 0 THEN NaN ELSE RDiv(SumSeq(v), R(Len(v)))

\* Series.median(): the middle value of the non-missing values, or the mean
\* of the two middle ones; missing when there is none.
KthSmallest(v, k) ==
    CHOOSE x \in {v[j] : j \in 1..Len(v)} :
        /\ Cardinality({j \in 1..Len(v) : RLt(v[j], x)}) < k
        /\ Cardinality({j \in 1..Len(v) : RLe(v[j], x)}) >= k

MedianSeq(s) ==
    LET v == SelectNotNa(s)
        m == Len(v)
    IN  IF m = 0 THEN NaN
        ELSE IF m % 2 = 1 THEN KthSmallest(v, (m + 1) \div 2)
        ELSE RDiv(RAdd(KthSmallest(v, m \div 2), KthSmallest(v, m \div 2 + 1)), R(2))

Column(recs, f) == [k \in 1..Len(recs) |-> recs[k][f]]

(***************************************************************************)
(* Configuration (src/config.py).                                          *)
(***************************************************************************)
STOP_SPEED_THRESHOLD_KMH == 2
STOP_DURATION_SECONDS == 5
ACCELERATION_THRESHOLD_MPS2 == Frac(3, 2)
MIN_CRUISING_SPEED_KMH == 10
ROLLING_WINDOW_SPEED_STD == 5
SPEED_STD_DEV_THRESHOLD_FACTOR == Frac(3, 2)
NP_WINDOW_SIZE_SECONDS == 30
NP_EXPONENT == 4
MAX_POWER_THRESHOLD == 3000
\* conf.get('max_power_gap_seconds', 5) in ValidatePowerData.process
DEFAULT_MAX_POWER_GAP == 5
\* the literals of MarkStops.process
STOP_CADENCE_RPM == 10
STOP_POWER_W == 30
FILL_MISSING == 1000

\* get_default_config(), together with the defaults of the conf.get(...)
\* calls for the keys it does not list.
DefaultConfig ==
    [stop_speed_threshold_kmh       |-> R(STOP_SPEED_THRESHOLD_KMH),
     stop_duration_seconds          |-> R(STOP_DURATION_SECONDS),
     acceleration_threshold_mps2    |-> ACCELERATION_THRESHOLD_MPS2,
     min_cruising_speed_kmh         |-> R(MIN_CRUISING_SPEED_KMH),
     rolling_window_speed_std       |-> R(ROLLING_WINDOW_SPEED_STD),
     speed_std_dev_threshold_factor |-> SPEED_STD_DEV_THRESHOLD_FACTOR,
     np_window_size_seconds         |-> R(NP_WINDOW_SIZE_SECONDS),
     np_exponent                    |-> NP_EXPONENT,
     max_power_threshold            |-> R(MAX_POWER_THRESHOLD),
     interpolate_power_gaps         |-> TRUE,
     max_power_gap_seconds          |-> DEFAULT_MAX_POWER_GAP,
     ftp                            |-> NaN]

\* merge_config(base, override): every key of the override replaces the base.
merge_config(base, override) ==
    [k \in DOMAIN base |-> IF k \in DOMAIN override THEN override[k] ELSE base[k]]

(***************************************************************************)
(* Record and RideData (src/models.py).                                    *)
(***************************************************************************)
\* Record(timestamp, speed, power, cadence) with the dataclass defaults.
\* heart_rate, cumulative_time_seconds, speed_diff_mps and
\* speed_rolling_std_kmh live in Record.extra.
Record(timestamp, speed, power, cadence, heart_rate) ==
    [timestamp |-> timestamp, speed |-> speed,
     power |-> power, cadence |-> cadence, heart_rate |-> heart_rate,
     speed_kmh |-> NaN, time_diff_seconds |-> NaN, acceleration |-> NaN,
     is_stopped |-> FALSE, is_cruising |-> TRUE,
     cumulative_time_seconds |-> NaN, speed_diff_mps |-> NaN,
     speed_rolling_std_kmh |-> NaN]

NumericFields == {"speed", "power", "cadence", "heart_rate", "speed_kmh",
                  "time_diff_seconds", "acceleration", "cumulative_time_seconds",
                  "speed_diff_mps", "speed_rolling_std_kmh"}

\* RideData.to_dataframe: a None field of a record is left out of its row,
\* so a column exists iff some record has a value for it.
HasColumn(recs, f) == \E k \in 1..Len(recs) : NotNa(recs[k][f])

\* from_dataframe that passes a field on only when it is truthy: a False
\* is_cruising falls back to the dataclass default.
from_dataframe_truthy(df) ==
    [k \in 1..Len(df) |-> [df[k] EXCEPT !.is_cruising = TRUE]]

\* RideData.from_dataframe: a field is passed to Record(...) only where the
\* cell is not NaN; the others take the dataclass default (None).
from_dataframe(df) ==
    [k \in 1..Len(df) |->
        [f \in DOMAIN df[k] |->
            IF f \in NumericFields /\ IsNaN(df[k][f]) THEN NaN ELSE df[k][f]]]

SetColumn(recs, f, col) == [k \in 1..Len(recs) |-> [recs[k] EXCEPT ![f] = col[k]]]

\* str(e) of the KeyError that df[column] raises for a column the frame lacks
KeyError(column) == "'" \o column \o "'"

(***************************************************************************)
(* FitParser.parse_bytes (src/parser.py).                                  *)
(***************************************************************************)
\* An uploaded file is either rejected by the decoder (FitFile raises) or
\* decodes to its 'record' messages.  A message carries the fields the
\* parser reads; a field the message lacks is NaN (None), a missing
\* timestamp is NoTimestamp.
NoTimestamp == 0 - 1

Message(timestamp, enhanced_speed, speed, power, cadence, heart_rate) ==
    [timestamp |-> timestamp, enhanced_speed |-> enhanced_speed, speed |-> speed,
     power |-> power, cadence |-> cadence, heart_rate |-> heart_rate]

\* the value Optional[RideData] / Optional[DataFrame] that is None
None == [none |-> TRUE, records |-> <<>>]

RideData(recs) == [none |-> FALSE, records |-> recs]

\* enhanced_speed if available, otherwise speed
SpeedOf(msg) == IF NotNa(msg.enhanced_speed) THEN msg.enhanced_speed ELSE msg.speed

\* only messages with timestamp and speed become records
KeepsMessage(msg) == msg.timestamp # NoTimestamp /\ NotNa(SpeedOf(msg))

RECURSIVE ParseRecords(_)
ParseRecords(msgs) ==
    IF msgs = <<>> THEN <<>>
    ELSE LET msg == Head(msgs)
         IN  (IF KeepsMessage(msg)
              THEN <<Record(msg.timestamp, SpeedOf(msg), msg.power, msg.cadence,
                            msg.heart_rate)>>
              ELSE <<>>) \o ParseRecords(Tail(msgs))

\* a parser that hands back a ride without records
parse_bytes_empty(fit_data) ==
    IF ~fit_data.decodable THEN None
    ELSE RideData(ParseRecords(fit_data.messages))

parse_bytes(fit_data) ==
    IF ~fit_data.decodable THEN None
    ELSE LET recs == ParseRecords(fit_data.messages)
         IN  IF recs = <<>> THEN None ELSE RideData(recs)

(***************************************************************************)
(* ConvertSpeedToKmh.process                                               *)
(***************************************************************************)
KmhOf(speed) == RMul(speed, Frac(18, 5))

\* a conversion that overwrites the raw speed with the km/h value
ConvertSpeedToKmh_inplace ==
    /\ pc = "ConvertSpeedToKmh"
    /\ IF ~HasColumn(records, "speed")
       THEN /\ pc' = "raised"
            /\ exc' = KeyError("speed")
            /\ UNCHANGED records
       ELSE /\ records' = [k \in 1..Len(records) |->
                              [records[k] EXCEPT !.speed = KmhOf(records[k].speed),
                                                 !.speed_kmh = KmhOf(records[k].speed)]]
            /\ pc' = "SortAndCalculateTimeDiff"
            /\ UNCHANGED exc
    /\ UNCHANGED <<conf, i, stop_event_active, current_stop_duration,
                   stop_start_index, avg_speed_std_cruising, cruising_on_entry, result,
                   fit, np_result, returned>>

\* df['speed'] raises KeyError on a frame without that column (a ride
\* without records gives a frame without columns).
ConvertSpeedToKmh ==
    /\ pc = "ConvertSpeedToKmh"
    /\ IF ~HasColumn(records, "speed")
       THEN /\ pc' = "raised"
            /\ exc' = KeyError("speed")
            /\ UNCHANGED records
       ELSE /\ records' = [k \in 1..Len(records) |->
                              [records[k] EXCEPT !.speed_kmh = KmhOf(records[k].speed)]]
            /\ pc' = "SortAndCalculateTimeDiff"
            /\ UNCHANGED exc
    /\ UNCHANGED <<conf, i, stop_event_active, current_stop_duration,
                   stop_start_index, avg_speed_std_cruising, cruising_on_entry, result,
                   fit, np_result, returned>>

(***************************************************************************)
(* SortAndCalculateTimeDiff.process                                        *)
(***************************************************************************)
RemoveAt(s, j) == [k \in 1..(Len(s) - 1) |-> IF k < j THEN s[k] ELSE s[k + 1]]

\* df.sort_values(by='timestamp').reset_index(drop=True) with the default
\* kind ('quicksort'), which does not promise an order among rows of equal
\* timestamp: every ascending arrangement of the rows is a possible outcome.
RECURSIVE SortOutcomes(_)
SortOutcomes(recs) ==
    IF Len(recs) = 0 THEN {<<>>}
    ELSE LET firsts == {j \in 1..Len(recs) :
                           \A k \in 1..Len(recs) : recs[j].timestamp <= recs[k].timestamp}
         IN  UNION {{<<recs[j]>> \o rest : rest \in SortOutcomes(RemoveAt(recs, j))} :
                       j \in firsts}

\* df['timestamp'].diff().dt.total_seconds()
TimestampDiff(recs) ==
    [k \in 1..Len(recs) |->
        IF k = 1 THEN NaN ELSE R(recs[k].timestamp - recs[k - 1].timestamp)]

\* first row filled with the median without the positivity guard
FirstTimeDiff_unguarded(diffs) ==
    IF Len(diffs) > 1 /\ IsNaN(diffs[1])
    THEN [diffs EXCEPT ![1] = FillNa(MedianSeq(diffs), R(1))]
    ELSE diffs

\* the first row's value: median of the column when positive, else 1.0;
\* only rides of more than one row are touched.
FirstTimeDiff(diffs) ==
    IF Len(diffs) > 1 /\ IsNaN(diffs[1])
    THEN LET common_diff == MedianSeq(diffs)
         IN  [diffs EXCEPT ![1] = IF NotNa(common_diff) /\ RGt(common_diff, R(0))
                                  THEN common_diff ELSE R(1)]
    ELSE diffs

\* Series.cumsum(): a missing entry stays missing and adds nothing.
RECURSIVE CumSum(_, _)
CumSum(s, k) ==
    IF k = 0 THEN R(0)
    ELSE RAdd(CumSum(s, k - 1), FillNa(s[k], R(0)))

CumulativeTime(diffs) ==
    [k \in 1..Len(diffs) |->
        FillNa(IF IsNaN(diffs[k]) THEN NaN ELSE CumSum(diffs, k), R(0))]

SortAndCalculateTimeDiff ==
    /\ pc = "SortAndCalculateTimeDiff"
    /\ \E sorted \in SortOutcomes(records) :
          LET diffs  == FirstTimeDiff(TimestampDiff(sorted))
              df     == SetColumn(SetColumn(sorted, "time_diff_seconds", diffs),
                                  "cumulative_time_seconds", CumulativeTime(diffs))
          IN  records' = from_dataframe(df)
    /\ pc' = "ValidatePowerData"
    /\ UNCHANGED <<conf, i, stop_event_active, current_stop_duration,
                   stop_start_index, avg_speed_std_cruising, cruising_on_entry, result,
                   fit, np_result, returned, exc>>

(***************************************************************************)
(* ValidatePowerData.process                                               *)
(***************************************************************************)
\* index of the last non-missing entry before k, 0 when there is none
PrevValid(s, k) ==
    IF \E j \in 1..(k - 1) : NotNa(s[j])
    THEN CHOOSE j \in 1..(k - 1) : NotNa(s[j]) /\ \A m \in (j + 1)..(k - 1) : IsNaN(s[m])
    ELSE 0

\* index of the first non-missing entry after k, 0 when there is none
NextValid(s, k) ==
    IF \E j \in (k + 1)..Len(s) : NotNa(s[j])
    THEN CHOOSE j \in (k + 1)..Len(s) : NotNa(s[j]) /\ \A m \in (k + 1)..(j - 1) : IsNaN(s[m])
    ELSE 0

\* Series.interpolate(method='linear', limit=limit): rows are taken as
\* equally spaced; filling runs forward from the last valid value, so at
\* most `limit` missing entries after a valid one are filled (also in a
\* longer gap), entries before the first valid value are never filled and
\* entries after the last valid value repeat it.
Interpolate(s, limit) ==
    [k \in 1..Len(s) |->
        IF NotNa(s[k]) THEN s[k]
        ELSE LET a == PrevValid(s, k)
                 b == NextValid(s, k)
             IN  IF a = 0 \/ k - a > limit THEN NaN
                 ELSE IF b = 0 THEN s[a]
                 ELSE RAdd(s[a], RDiv(RMul(RSub(s[b], s[a]), R(k - a)), R(b - a)))]

\* clamping at both ends: a value above the maximum becomes the maximum
ClampPower_cap(p, max_power_threshold) ==
    IF RLt(p, R(0)) THEN R(0)
    ELSE IF RGt(p, max_power_threshold) THEN max_power_threshold ELSE p

\* the two df.loc[...] assignments: negative -> 0, above the maximum -> NaN
ClampPower(p, max_power_threshold) ==
    LET q == IF RLt(p, R(0)) THEN R(0) ELSE p
    IN  IF RGt(q, max_power_threshold) THEN NaN ELSE q

ValidatedPower(recs, c) ==
    LET clamped == [k \in 1..Len(recs) |-> ClampPower(recs[k].power, c.max_power_threshold)]
    IN  IF c.interpolate_power_gaps
        THEN Interpolate(clamped, c.max_power_gap_seconds)
        ELSE clamped

ValidatePowerData ==
    /\ pc = "ValidatePowerData"
    /\ records' = IF ~HasColumn(records, "power") THEN records
                  ELSE from_dataframe(SetColumn(records, "power", ValidatedPower(records, conf)))
    /\ pc' = "MarkStops"
    /\ UNCHANGED <<conf, i, stop_event_active, current_stop_duration,
                   stop_start_index, avg_speed_std_cruising, cruising_on_entry, result,
                   fit, np_result, returned, exc>>

(***************************************************************************)
(* MarkStops.process                                                       *)
(***************************************************************************)
\* is_stopped with missing cadence / power filled with 0
IsStopped_fill0(recs, k, c) ==
    /\ RLt(recs[k].speed_kmh, c.stop_speed_threshold_kmh)
    /\ HasColumn(recs, "cadence") => RLt(FillNa(recs[k].cadence, R(0)), R(STOP_CADENCE_RPM))
    /\ HasColumn(recs, "power") => RLt(FillNa(recs[k].power, R(0)), R(STOP_POWER_W))

\* is_stopped of one row: low speed, and low cadence / low power when the
\* ride has that column with at least one value (missing filled with 1000).
IsStopped(recs, k, c) ==
    /\ RLt(recs[k].speed_kmh, c.stop_speed_threshold_kmh)
    /\ HasColumn(recs, "cadence") =>
          RLt(FillNa(recs[k].cadence, R(FILL_MISSING)), R(STOP_CADENCE_RPM))
    /\ HasColumn(recs, "power") =>
          RLt(FillNa(recs[k].power, R(FILL_MISSING)), R(STOP_POWER_W))

\* a stopped sample that counts for one second at least
StopTimeDiff_atleast1(rec) ==
    IF IsNaN(rec.time_diff_seconds) \/ RLt(rec.time_diff_seconds, R(1)) THEN R(1)
    ELSE rec.time_diff_seconds

\* float(df.loc[i, 'time_diff_seconds']) if pd.notna(...) else 0.0
StopTimeDiff(rec) == FillNa(rec.time_diff_seconds, R(0))

\* a stop of any positive duration qualifies
StopQualifies_any(dur, c) == RGt(dur, R(0))

\* current_stop_duration >= stop_duration_seconds
StopQualifies(dur, c) == RGe(dur, c.stop_duration_seconds)

\* only the current row is marked
StopSpan_current(start, last) == last..last

\* the rows of df.loc[stop_start_index:i, 'is_cruising'] (a label slice,
\* both ends included)
StopSpan(start, last) == start..last

\* a non-stopped sample that leaves the running stop event as it is
ResetStopEvent_keep(ev) == ev

\* the else branch of the loop: a non-stopped sample ends a running stop
\* event (ev holds the three loop variables)
ResetStopEvent(ev) ==
    IF ev.active THEN [active |-> FALSE, duration |-> R(0), start |-> 0] ELSE ev

\* Rows are numbered from 1 here (the code numbers them from 0), so
\* stop_start_index = 0 stands for the code's -1.
MarkStopsBegin ==
    /\ pc = "MarkStops"
    /\ records' = [k \in 1..Len(records) |->
                      [records[k] EXCEPT !.is_stopped = IsStopped(records, k, conf),
                                         !.is_cruising = TRUE]]
    /\ stop_event_active' = FALSE
    /\ current_stop_duration' = R(0)
    /\ stop_start_index' = 0
    /\ i' = 1
    /\ pc' = "MarkStopsLoop"
    /\ UNCHANGED <<conf, avg_speed_std_cruising, cruising_on_entry, result,
                   fit, np_result, returned, exc>>

\* one iteration of `for i in range(len(df))`; reading the time_diff_seconds
\* column of a ride that has none raises KeyError.
MarkStopsLoop ==
    /\ pc = "MarkStopsLoop"
    /\ i <= Len(records)
    /\ IF records[i].is_stopped
       THEN IF ~HasColumn(records, "time_diff_seconds")
            THEN /\ pc' = "raised"
                 /\ exc' = KeyError("time_diff_seconds")
                 /\ UNCHANGED <<records, i, stop_event_active,
                                current_stop_duration, stop_start_index>>
            ELSE LET start == IF stop_event_active THEN stop_start_index ELSE i
                     dur   == IF stop_event_active
                              THEN RAdd(current_stop_duration, StopTimeDiff(records[i]))
                              ELSE StopTimeDiff(records[i])
                 IN  /\ stop_event_active' = TRUE
                     /\ stop_start_index' = start
                     /\ current_stop_duration' = dur
                     /\ records' = IF StopQualifies(dur, conf)
                                   THEN [k \in 1..Len(records) |->
                                            IF k \in StopSpan(start, i)
                                            THEN [records[k] EXCEPT !.is_cruising = FALSE]
                                            ELSE records[k]]
                                   ELSE records
                     /\ i' = i + 1
                     /\ pc' = IF i = Len(records) THEN "CalculateAcceleration"
                              ELSE "MarkStopsLoop"
                     /\ UNCHANGED exc
       ELSE /\ LET ev == ResetStopEvent([active |-> stop_event_active,
                                         duration |-> current_stop_duration,
                                         start |-> stop_start_index])
               IN  /\ stop_event_active' = ev.active
                   /\ current_stop_duration' = ev.duration
                   /\ stop_start_index' = ev.start
            /\ i' = i + 1
            /\ pc' = IF i = Len(records) THEN "CalculateAcceleration"
                     ELSE "MarkStopsLoop"
            /\ UNCHANGED <<records, exc>>
    /\ UNCHANGED <<conf, avg_speed_std_cruising, cruising_on_entry, result,
                   fit, np_result, returned>>

(***************************************************************************)
(* CalculateAcceleration.process                                           *)
(***************************************************************************)
\* df['speed'].diff().fillna(0)
SpeedDiff(recs, k) ==
    IF k = 1 THEN R(0) ELSE RSub(recs[k].speed, recs[k - 1].speed)

\* the division without the guard on the delta and without the fill
Acceleration_unguarded(recs, k) ==
    RDiv(SpeedDiff(recs, k), recs[k].time_diff_seconds)

\* speed_diff_mps / time_diff_seconds when the delta is present and > 0,
\* else 0; then fillna(0) (no infinity arises from a guarded division).
Acceleration(recs, k) ==
    LET td == recs[k].time_diff_seconds
    IN  FillNa(IF NotNa(td) /\ RGt(td, R(0)) THEN RDiv(SpeedDiff(recs, k), td) ELSE R(0),
               R(0))

\* row['time_diff_seconds'] raises KeyError when the ride has no such column.
CalculateAcceleration ==
    /\ pc = "CalculateAcceleration"
    /\ IF ~HasColumn(records, "time_diff_seconds")
       THEN /\ pc' = "raised"
            /\ exc' = KeyError("time_diff_seconds")
            /\ UNCHANGED records
       ELSE /\ records' = from_dataframe(
                  [k \in 1..Len(records) |->
                      [records[k] EXCEPT !.speed_diff_mps = SpeedDiff(records, k),
                                         !.acceleration = Acceleration(records, k)]])
            /\ pc' = "CalculateSpeedVariability"
            /\ UNCHANGED exc
    /\ UNCHANGED <<conf, i, stop_event_active, current_stop_duration,
                   stop_start_index, avg_speed_std_cruising, cruising_on_entry, result,
                   fit, np_result, returned>>

(***************************************************************************)
(* CalculateSpeedVariability.process                                       *)
(***************************************************************************)
\* Precision of the modelled square root: results are multiples of
\* 1/SqrtScale, rounded down.
SqrtScale == 100

RECURSIVE ISqrtBetween(_, _, _)
ISqrtBetween(n, lo, hi) ==
    IF lo >= hi THEN lo
    ELSE LET mid == (lo + hi + 1) \div 2
         IN  IF mid * mid <= n THEN ISqrtBetween(n, mid, hi)
             ELSE ISqrtBetween(n, lo, mid - 1)

ISqrt(n) == ISqrtBetween(n, 0, IF n < 40000 THEN n ELSE 40000)

Sqrt(r) ==
    IF IsNaN(r) THEN NaN
    ELSE Frac(ISqrt((r.n * SqrtScale * SqrtScale) \div r.d), SqrtScale)

\* int(x) of a non-negative quotient: truncation
IntOf(r) == r.n \div r.d

Max(a, b) == IF a >= b THEN a ELSE b

\* mean sample interval with the fallback of 1.0
MeanTimeDiff(recs) ==
    LET m == MeanSeq(Column(recs, "time_diff_seconds"))
    IN  IF IsNaN(m) \/ RLe(m, R(0)) THEN R(1) ELSE m

\* max(1, int(window_seconds / mean_time_diff))
WindowPoints(window_seconds, mean_time_diff) ==
    Max(1, IntOf(RDiv(window_seconds, mean_time_diff)))

\* rolling(window=w, center=True): the values the window of row k covers,
\* clipped to the rows of the series
WindowValues(s, w, k) ==
    LET offset == (w - 1) \div 2
        lo == Max(1, k + offset - w + 1)
        hi == IF k + offset <= Len(s) THEN k + offset ELSE Len(s)
    IN  [j \in 1..(hi - lo + 1) |-> s[lo + j - 1]]

\* sample standard deviation (ddof = 1)
StdOf(vals) ==
    LET mean == MeanSeq(vals)
        sq   == [j \in 1..Len(vals) |->
                    RMul(RSub(vals[j], mean), RSub(vals[j], mean))]
    IN  IF Len(vals) < 2 THEN NaN
        ELSE Sqrt(RDiv(SumSeq(sq), R(Len(vals) - 1)))

\* .rolling(window=w, center=True).std(): missing unless the window holds
\* w values (min_periods defaults to the window size)
RollingStd(s, w) ==
    [k \in 1..Len(s) |->
        LET vals == WindowValues(s, w, k)
        IN  IF Len(vals) < w THEN NaN ELSE StdOf(vals)]

\* .bfill().ffill().fillna(0)
BfillFfill(s) ==
    [k \in 1..Len(s) |->
        IF NotNa(s[k]) THEN s[k]
        ELSE IF NextValid(s, k) # 0 THEN s[NextValid(s, k)]
        ELSE IF PrevValid(s, k) # 0 THEN s[PrevValid(s, k)]
        ELSE R(0)]

SpeedRollingStd(recs, c) ==
    BfillFfill(RollingStd(Column(recs, "speed_kmh"),
                          WindowPoints(c.rolling_window_speed_std, MeanTimeDiff(recs))))

CalculateSpeedVariability ==
    /\ pc = "CalculateSpeedVariability"
    /\ IF ~HasColumn(records, "time_diff_seconds")
       THEN /\ pc' = "raised"
            /\ exc' = KeyError("time_diff_seconds")
            /\ UNCHANGED records
       ELSE /\ records' = from_dataframe(
                  SetColumn(records, "speed_rolling_std_kmh", SpeedRollingStd(records, conf)))
            /\ pc' = "MarkNonCruising"
            /\ UNCHANGED exc
    /\ UNCHANGED <<conf, i, stop_event_active, current_stop_duration,
                   stop_start_index, avg_speed_std_cruising, cruising_on_entry, result,
                   fit, np_result, returned>>

(***************************************************************************)
(* MarkNonCruising.process                                                 *)
(***************************************************************************)
\* mean rolling std over the rows cruising on entry, over all rows when none
\* is cruising, 0.5 when that is undefined
AvgSpeedStdCruising(recs) ==
    LET cruising == SelectSeq(recs, LAMBDA r : r.is_cruising)
        m == IF Len(cruising) > 0
             THEN MeanSeq(Column(cruising, "speed_rolling_std_kmh"))
             ELSE MeanSeq(Column(recs, "speed_rolling_std_kmh"))
    IN  IF IsNaN(m) THEN Frac(1, 2) ELSE m

\* threshold_std_dev
ThresholdStdDev(avg, c) ==
    IF RGt(avg, Frac(1, 100)) THEN RMul(avg, c.speed_std_dev_threshold_factor)
    ELSE c.speed_std_dev_threshold_factor

\* acceleration compared without abs()
AccelMask_signed(r, c) == RGt(r.acceleration, c.acceleration_threshold_mps2)

AccelMask(r, c) == RGt(RAbs(r.acceleration), c.acceleration_threshold_mps2)

StdMask(r, threshold) == RGt(r.speed_rolling_std_kmh, threshold)

SpeedMask(r, c) == RLt(r.speed_kmh, c.min_cruising_speed_kmh)

\* df.loc[mask, 'is_cruising'] = False
ClearWhere(recs, mask) ==
    [k \in 1..Len(recs) |->
        IF mask[k] THEN [recs[k] EXCEPT !.is_cruising = FALSE] ELSE recs[k]]

\* a boolean column: the mask of one comparison over the whole ride
AccelMasks(recs, c) == [k \in 1..Len(recs) |-> AccelMask(recs[k], c)]

StdMasks(recs, threshold) == [k \in 1..Len(recs) |-> StdMask(recs[k], threshold)]

SpeedMasks(recs, c) == [k \in 1..Len(recs) |-> SpeedMask(recs[k], c)]

\* the baseline computed after the acceleration mask is applied
MarkNonCruisingAccel_late ==
    /\ pc = "MarkNonCruising"
    /\ avg_speed_std_cruising' =
          AvgSpeedStdCruising(ClearWhere(records, AccelMasks(records, conf)))
    /\ cruising_on_entry' = Column(records, "is_cruising")
    /\ records' = ClearWhere(records, AccelMasks(records, conf))
    /\ pc' = "MarkNonCruisingStd"
    /\ UNCHANGED <<conf, i, stop_event_active, current_stop_duration,
                   stop_start_index, result,
                   fit, np_result, returned, exc>>

\* the baseline is computed first, then the acceleration mask is applied
MarkNonCruisingAccel ==
    /\ pc = "MarkNonCruising"
    /\ avg_speed_std_cruising' = AvgSpeedStdCruising(records)
    /\ cruising_on_entry' = Column(records, "is_cruising")
    /\ records' = ClearWhere(records, AccelMasks(records, conf))
    /\ pc' = "MarkNonCruisingStd"
    /\ UNCHANGED <<conf, i, stop_event_active, current_stop_duration,
                   stop_start_index, result,
                   fit, np_result, returned, exc>>

MarkNonCruisingStd ==
    /\ pc = "MarkNonCruisingStd"
    /\ records' = ClearWhere(records,
                      StdMasks(records, ThresholdStdDev(avg_speed_std_cruising, conf)))
    /\ pc' = "MarkNonCruisingSpeed"
    /\ UNCHANGED <<conf, i, stop_event_active, current_stop_duration,
                   stop_start_index, avg_speed_std_cruising, cruising_on_entry, result,
                   fit, np_result, returned, exc>>

MarkNonCruisingSpeed ==
    /\ pc = "MarkNonCruisingSpeed"
    /\ records' = from_dataframe(ClearWhere(records, SpeedMasks(records, conf)))
    /\ pc' = "CruisingSpeedCalculator"
    /\ UNCHANGED <<conf, i, stop_event_active, current_stop_duration,
                   stop_start_index, avg_speed_std_cruising, cruising_on_entry, result,
                   fit, np_result, returned, exc>>

(***************************************************************************)
(* CruisingSpeedCalculator.calculate (src/compute.py)                      *)
(***************************************************************************)
\* A result dictionary: keys is the set of keys present; a key that is
\* absent, or present with the value None, has the value NaN / 0 / "".
NoResult ==
    [keys |-> {}, success |-> FALSE, message |-> "",
     cruising_speed |-> NaN, avg_speed |-> NaN, cruising_points |-> 0,
     total_points |-> 0, cruising_time_seconds |-> NaN,
     avg_power |-> NaN, avg_cadence |-> NaN, avg_heart_rate |-> NaN]

\* (a * b).sum(): a product with a missing factor is skipped
WeightedSum(recs, f) ==
    SumSeq([k \in 1..Len(recs) |-> RMul(recs[k][f], recs[k].time_diff_seconds)])

\* no restriction to the cruising rows
CruisingData_all(recs) == recs

CruisingData(recs) == SelectSeq(recs, LAMBDA r : r.is_cruising)

\* an emptiness test that never finds the frame empty
Empty_never(df) == FALSE

\* DataFrame.empty
Empty(df) == Len(df) = 0

\* a test that lets a zero total through
AbnormalTotal_negative(total) == RLt(total, R(0))

\* cruising_total_time_seconds <= 0
AbnormalTotal(total) == RLe(total, R(0))

\* _add_optional_metrics, one channel
OptionalMetric(res, key, recs, cruising_data, f, total) ==
    IF HasColumn(recs, f) /\ HasColumn(cruising_data, f)
    THEN [res EXCEPT !.keys = @ \cup {key},
                     ![key] = RDiv(WeightedSum(cruising_data, f), total)]
    ELSE res

CruisingResult(recs) ==
    LET cruising_data == CruisingData(recs)
        cruising_total_time_seconds == SumSeq(Column(cruising_data, "time_diff_seconds"))
    IN  IF Empty(cruising_data)
        THEN [NoResult EXCEPT !.keys = {"cruising_speed", "success", "message"},
                              !.message = "No cruising data identified"]
        ELSE IF AbnormalTotal(cruising_total_time_seconds)
        THEN [NoResult EXCEPT !.keys = {"cruising_speed", "avg_speed", "success", "message"},
                              !.avg_speed = MeanSeq(Column(cruising_data, "speed_kmh")),
                              !.message = "Abnormal total cruising time"]
        ELSE LET base ==
                   [NoResult EXCEPT
                      !.keys = {"cruising_speed", "avg_speed", "cruising_points",
                                "total_points", "cruising_time_seconds", "success"},
                      !.cruising_speed = RDiv(WeightedSum(cruising_data, "speed_kmh"),
                                              cruising_total_time_seconds),
                      !.avg_speed = MeanSeq(Column(cruising_data, "speed_kmh")),
                      !.cruising_points = Len(cruising_data),
                      !.total_points = Len(recs),
                      !.cruising_time_seconds = cruising_total_time_seconds,
                      !.success = TRUE]
                 p == OptionalMetric(base, "avg_power", recs, cruising_data,
                                     "power", cruising_total_time_seconds)
                 c == OptionalMetric(p, "avg_cadence", recs, cruising_data,
                                     "cadence", cruising_total_time_seconds)
             IN  OptionalMetric(c, "avg_heart_rate", recs, cruising_data,
                                "heart_rate", cruising_total_time_seconds)

\* The column a calculate() call would fail to find: df['is_cruising'],
\* then (no cruising rows) the columns _print_debug_info reads, or (some
\* cruising rows) the time_diff_seconds and speed_kmh columns; "" if none.
CruisingMissingColumn(recs) ==
    LET need == IF Empty(CruisingData(recs))
                THEN <<"speed_kmh", "acceleration">>
                ELSE <<"time_diff_seconds", "speed_kmh">>
    IN  IF Len(recs) = 0 THEN "is_cruising"
        ELSE IF ~HasColumn(recs, need[1]) THEN need[1]
        ELSE IF ~HasColumn(recs, need[2]) THEN need[2]
        ELSE ""

CruisingSpeedCalculator ==
    /\ pc = "CruisingSpeedCalculator"
    /\ IF CruisingMissingColumn(records) # ""
       THEN /\ pc' = "raised"
            /\ exc' = KeyError(CruisingMissingColumn(records))
            /\ UNCHANGED result
       ELSE /\ result' = CruisingResult(records)
            /\ pc' = "NormalizedPowerCalculator"
            /\ UNCHANGED exc
    /\ UNCHANGED <<records, conf, i, stop_event_active, current_stop_duration,
                   stop_start_index, avg_speed_std_cruising, cruising_on_entry,
                   fit, np_result, returned>>

(***************************************************************************)
(* NormalizedPowerCalculator.calculate (src/compute.py)                    *)
(***************************************************************************)
NoNPResult ==
    [keys |-> {}, success |-> FALSE, message |-> "",
     normalized_power |-> NaN, avg_power |-> NaN,
     intensity_factor |-> NaN, np_to_avg_ratio |-> NaN]

\* x ** e for an integer exponent e >= 0
RECURSIVE RPow(_, _)
RPow(x, e) == IF e = 0 THEN R(1) ELSE RMul(x, RPow(x, e - 1))

RECURSIVE IPow(_, _)
IPow(k, e) == IF e = 0 THEN 1 ELSE k * IPow(k, e - 1)

\* Precision of the modelled root: results are multiples of 1 / RootScale.
RootScale == 10

\* the largest k in lo..hi with k ^ e <= bound
RECURSIVE IRootBetween(_, _, _, _)
IRootBetween(bound, e, lo, hi) ==
    IF lo >= hi THEN lo
    ELSE LET mid == (lo + hi + 1) \div 2
         IN  IF IPow(mid, e) <= bound THEN IRootBetween(bound, e, mid, hi)
             ELSE IRootBetween(bound, e, lo, mid - 1)

\* x ** (1 / e), rounded down to the precision; missing for a negative x
\* (numpy gives nan) and for a missing x
Root(x, e) ==
    IF IsNaN(x) \/ x.n < 0 THEN NaN
    ELSE Frac(IRootBetween((x.n * IPow(RootScale, e)) \div x.d, e, 0,
                           RootScale * (x.n \div x.d + 1)),
              RootScale)

\* the time-weighted mean power, or the plain mean when the ride has no
\* positive total time
NPAvgPower(recs) ==
    LET total == SumSeq(Column(recs, "time_diff_seconds"))
    IN  IF HasColumn(recs, "time_diff_seconds") /\ RGt(total, R(0))
        THEN RDiv(WeightedSum(recs, "power"), total)
        ELSE MeanSeq(Column(recs, "power"))

\* len(df) < window_size
TooShort(recs, c) == RLt(R(Len(recs)), c.np_window_size_seconds)

\* df['time_diff_seconds'].mean() if the column exists, else 1.0
NPMeanTimeDiff(recs) ==
    IF HasColumn(recs, "time_diff_seconds")
    THEN MeanSeq(Column(recs, "time_diff_seconds"))
    ELSE R(1)

\* rolling(window=w, min_periods=1, center=True).mean()
RollingMean(s, w) == [k \in 1..Len(s) |-> MeanSeq(WindowValues(s, w, k))]

NormalizedPower(recs, c) ==
    LET window_points == WindowPoints(c.np_window_size_seconds, NPMeanTimeDiff(recs))
        power_30s_avg == RollingMean(Column(recs, "power"), window_points)
        power_30s_avg_4th == [k \in 1..Len(recs) |-> RPow(power_30s_avg[k], c.np_exponent)]
    IN  Root(MeanSeq(power_30s_avg_4th), c.np_exponent)

\* 'ftp' in config and config['ftp'] is not None and config['ftp'] > 0
\* 'ftp' in the configuration with a value, whatever its sign
HasFtp_any(c) == NotNa(c.ftp)

HasFtp(c) == NotNa(c.ftp) /\ RGt(c.ftp, R(0))

NPResult(recs, c) ==
    IF ~HasColumn(recs, "power")
    THEN [NoNPResult EXCEPT !.keys = {"normalized_power", "success", "message"},
                            !.message = "No power data available"]
    ELSE IF TooShort(recs, c)
    THEN [NoNPResult EXCEPT
            !.keys = {"normalized_power", "avg_power", "success", "message"},
            !.avg_power = NPAvgPower(recs),
            !.message = "Ride too short for NP calculation (minimum "
                        \o ToString(IntOf(c.np_window_size_seconds)) \o "s)"]
    ELSE LET normalized_power == NormalizedPower(recs, c)
             avg_power == NPAvgPower(recs)
         IN  [NoNPResult EXCEPT
                !.keys = {"normalized_power", "avg_power", "intensity_factor",
                          "np_to_avg_ratio", "success"},
                !.normalized_power = normalized_power,
                !.avg_power = avg_power,
                !.intensity_factor = IF HasFtp(c) THEN RDiv(normalized_power, c.ftp)
                                     ELSE NaN,
                !.np_to_avg_ratio = IF RGt(avg_power, R(0))
                                    THEN RDiv(normalized_power, avg_power) ELSE NaN,
                !.success = TRUE]

\* int(window_size / mean_time_diff) raises when the mean interval is 0
\* (the quotient is infinite).
NormalizedPowerCalculator ==
    /\ pc = "NormalizedPowerCalculator"
    /\ IF /\ HasColumn(records, "power")
          /\ ~TooShort(records, conf)
          /\ NPMeanTimeDiff(records).n = 0
       THEN /\ pc' = "raised"
            /\ exc' = "cannot convert float infinity to integer"
            /\ UNCHANGED np_result
       ELSE /\ np_result' = NPResult(records, conf)
            /\ pc' = "MergeResults"
            /\ UNCHANGED exc
    /\ UNCHANGED <<records, conf, i, stop_event_active, current_stop_duration,
                   stop_start_index, avg_speed_std_cruising, cruising_on_entry,
                   fit, result, returned>>

(***************************************************************************)
(* process_uploaded_file (src/app.py)                                      *)
(***************************************************************************)
\* {**cruising_result}, updated with the three NP entries only if the NP
\* calculation was successful
MergeResults(cruising_result, np) ==
    LET base == [k \in DOMAIN cruising_result \cup
                         {"normalized_power", "intensity_factor", "np_to_avg_ratio"} |->
                    IF k \in DOMAIN cruising_result THEN cruising_result[k] ELSE NaN]
    IN  IF np.success
        THEN [base EXCEPT !.keys = @ \cup {"normalized_power", "intensity_factor",
                                           "np_to_avg_ratio"},
                          !.normalized_power = np.normalized_power,
                          !.intensity_factor = np.intensity_factor,
                          !.np_to_avg_ratio = np.np_to_avg_ratio]
        ELSE base

\* {"success": False, "message": message}
Failure(message) ==
    [MergeResults(NoResult, NoNPResult) EXCEPT !.keys = {"success", "message"},
                                               !.message = message]

\* the pair process_uploaded_file returns; NotReturned before it has returned
Returned(res, df) == [result |-> res, df |-> df]

NotReturned == Returned(MergeResults(NoResult, NoNPResult), None)

\* bytes_data once the ride is built from it: nothing reads it again, so
\* its content is no longer part of the state
Parsed == [decodable |-> TRUE, messages |-> <<>>]

\* lines 36-52: parse the upload; no ride ends the call with a failure
ParseFit ==
    /\ pc = "parse_bytes"
    /\ LET ride_data == parse_bytes(fit)
       IN  IF ride_data = None
           THEN /\ returned' = Returned(Failure("Failed to parse FIT file data"), None)
                /\ pc' = "done"
                /\ UNCHANGED <<fit, records>>
           ELSE /\ records' = ride_data.records
                /\ fit' = Parsed
                /\ pc' = "ConvertSpeedToKmh"
                /\ UNCHANGED returned
    /\ UNCHANGED <<conf, i, stop_event_active, current_stop_duration,
                   stop_start_index, avg_speed_std_cruising, cruising_on_entry,
                   result, np_result, exc>>

\* lines 66-80: merge the two results and return them with the table
ReturnResults ==
    /\ pc = "MergeResults"
    /\ returned' = Returned(MergeResults(result, np_result), RideData(records))
    /\ pc' = "done"
    /\ UNCHANGED <<fit, records, conf, i, stop_event_active, current_stop_duration,
                   stop_start_index, avg_speed_std_cruising, cruising_on_entry,
                   result, np_result, exc>>

\* a handler that hands the table back with the failure
ExceptException_table ==
    /\ pc = "raised"
    /\ returned' = Returned(Failure("Processing error: " \o exc), RideData(records))
    /\ pc' = "done"
    /\ UNCHANGED <<fit, records, conf, i, stop_event_active, current_stop_duration,
                   stop_start_index, avg_speed_std_cruising, cruising_on_entry,
                   result, np_result, exc>>

\* lines 82-84: except Exception
ExceptException ==
    /\ pc = "raised"
    /\ returned' = Returned(Failure("Processing error: " \o exc), None)
    /\ pc' = "done"
    /\ UNCHANGED <<fit, records, conf, i, stop_event_active, current_stop_duration,
                   stop_start_index, avg_speed_std_cruising, cruising_on_entry,
                   result, np_result, exc>>

(***************************************************************************)
(* Input rides and configurations.                                         *)
(***************************************************************************)
\* RideData(records) as FitParser.parse_bytes builds it: at least one
\* record, each with a timestamp and a speed.
Ride(n, ts, sp, pw, cd) ==
    [k \in 1..n |-> Record(ts[k], sp[k], pw[k], cd[k], NaN)]

Missing(n) == [k \in 1..n |-> NaN]

\* speeds in m/s: standing, 9 km/h, 10.8 km/h, 18 km/h
Standing == R(0)
Slow == Frac(5, 2)
Steady == R(3)
Fast == R(5)

\* the messages a ride decodes from: speeds are enhanced speeds
Decoded(ride) ==
    [decodable |-> TRUE,
     messages |-> [k \in 1..Len(ride) |->
                     Message(ride[k].timestamp, ride[k].speed, NaN, ride[k].power,
                             ride[k].cadence, ride[k].heart_rate)]]

\* conf is merge_config(get_default_config(), user_config), which
\* process_uploaded_file computes from its argument once the file is parsed.
Input(ride, override) ==
    /\ fit = Decoded(ride)
    /\ conf = merge_config(DefaultConfig, override)

\* Rides with arbitrary (unsorted, repeated) timestamps: all fast, all
\* standing, or standing and fast in turn.
TimingInputs ==
    \E n \in 1..MaxLen :
        \E ts \in [1..n -> 0..MaxTime],
           sp \in {[k \in 1..n |-> Fast], [k \in 1..n |-> Standing],
                   [k \in 1..n |-> IF k % 2 = 1 THEN Standing ELSE Fast]} :
            Input(Ride(n, ts, sp, Missing(n), Missing(n)),
                  [stop_duration_seconds |-> R(2)])

\* Time-ordered rides with one or two seconds between samples, every
\* pattern of standing and fast samples, and a stop duration of 2 or 3 s.
RECURSIVE Stamps(_, _)
Stamps(gaps, k) == IF k = 1 THEN 0 ELSE Stamps(gaps, k - 1) + gaps[k]

StopRunInputs ==
    \E n \in 1..MaxLen :
        \E gaps \in [2..n -> 1..2], sp \in [1..n -> {Standing, Fast}], d \in 2..3 :
            Input(Ride(n, [k \in 1..n |-> Stamps(gaps, k)], sp, Missing(n), Missing(n)),
                  [stop_duration_seconds |-> R(d)])

\* Rides sampled once a second with every kind of power reading.
PowerInputs ==
    \E n \in 1..MaxLen :
        \E pw \in [1..n -> {NaN, R(-5), R(100), R(4000)}],
           c \in {[interpolate_power_gaps |-> FALSE],
                  [max_power_gap_seconds |-> 1],
                  [max_power_gap_seconds |-> 2]} :
            Input(Ride(n, [k \in 1..n |-> k], [k \in 1..n |-> Fast], pw, Missing(n)), c)

\* Short rides with every combination of speed, cadence and power reading
\* around the stop thresholds.
StopInputs ==
    \E n \in 1..2 :
        \E sp \in [1..n -> {Standing, Fast}],
           pw \in [1..n -> {NaN, R(20), R(30), R(100)}],
           cd \in [1..n -> {NaN, R(5), R(10), R(80)}] :
            Input(Ride(n, [k \in 1..n |-> k], sp, pw, cd),
                  [stop_duration_seconds |-> R(1)])

\* Rides sampled every second, every two seconds, or two and one seconds
\* apart in turn, at mixed speeds, with short rolling windows and (second
\* configuration) a stop threshold above the cruising floor.
Spacing(g, k) == IF g = 3 THEN k + (k \div 2) ELSE g * k

CruiseInputs ==
    \E n \in 1..MaxLen :
        \E g \in 1..3,
           sp \in [1..n -> {Standing, Slow, Steady, Fast}],
           c \in {[rolling_window_speed_std |-> R(2), stop_duration_seconds |-> R(2)],
                  [rolling_window_speed_std |-> R(3), stop_duration_seconds |-> R(2),
                   stop_speed_threshold_kmh |-> R(11), min_cruising_speed_kmh |-> R(5)]} :
            Input(Ride(n, [k \in 1..n |-> Spacing(g, k)], sp, Missing(n), Missing(n)), c)

\* Fast rides sampled every second or every two seconds whose power is
\* missing, 0 W or 2 W at each sample, with an NP window of two or three
\* seconds and the exponents and FTP settings below.
NPInputs ==
    \E n \in 1..MaxLen :
        \E g \in 1..2,
           pw \in [1..n -> {NaN, R(0), R(2)}],
           c \in {[np_window_size_seconds |-> R(2), interpolate_power_gaps |-> FALSE],
                  [np_window_size_seconds |-> R(3), np_exponent |-> 2, ftp |-> R(2),
                   interpolate_power_gaps |-> FALSE],
                  [np_window_size_seconds |-> R(2), ftp |-> R(0)],
                  [np_window_size_seconds |-> R(3), ftp |-> R(0 - 2)]} :
            Input(Ride(n, [k \in 1..n |-> g * k], [k \in 1..n |-> Fast], pw, Missing(n)), c)

\* Uploads the decoder rejects, and uploads of up to MaxMessages messages
\* each with or without a timestamp, an enhanced speed and a speed.
MaxMessages == 2

DecoderInputs ==
    /\ \/ fit = [decodable |-> FALSE, messages |-> <<>>]
       \/ \E n \in 0..MaxMessages :
             \E has \in [1..n -> [timestamp : BOOLEAN, enhanced_speed : BOOLEAN,
                                  speed : BOOLEAN]] :
                fit = [decodable |-> TRUE,
                       messages |-> [k \in 1..n |->
                           Message(IF has[k].timestamp THEN k ELSE NoTimestamp,
                                   IF has[k].enhanced_speed THEN Fast ELSE NaN,
                                   IF has[k].speed THEN Steady ELSE NaN,
                                   NaN, NaN, NaN)]]
    /\ conf = merge_config(DefaultConfig, [stop_duration_seconds |-> R(2)])

Init ==
    /\ \/ TimingInputs
       \/ StopRunInputs
       \/ PowerInputs
       \/ StopInputs
       \/ CruiseInputs
       \/ NPInputs
       \/ DecoderInputs
    /\ records = <<>>
    /\ pc = "parse_bytes"
    /\ i = 0
    /\ stop_event_active = FALSE
    /\ current_stop_duration = R(0)
    /\ stop_start_index = 0
    /\ avg_speed_std_cruising = NaN
    /\ cruising_on_entry = <<>>
    /\ result = NoResult
    /\ np_result = NoNPResult
    /\ returned = NotReturned
    /\ exc = ""

\* PreProcessingPipeline.create_default_pipeline() followed by the cruising
\* calculator, as process_uploaded_file runs them.
Next ==
    \/ ParseFit
    \/ ConvertSpeedToKmh
    \/ SortAndCalculateTimeDiff
    \/ ValidatePowerData
    \/ MarkStopsBegin
    \/ MarkStopsLoop
    \/ CalculateAcceleration
    \/ CalculateSpeedVariability
    \/ MarkNonCruisingAccel
    \/ MarkNonCruisingStd
    \/ MarkNonCruisingSpeed
    \/ CruisingSpeedCalculator
    \/ NormalizedPowerCalculator
    \/ ReturnResults
    \/ ExceptException

Spec == Init /\ [][Next]_vars

TypeOK ==
    /\ pc \in {"parse_bytes", "NormalizedPowerCalculator", "MergeResults",
               "ConvertSpeedToKmh", "SortAndCalculateTimeDiff", "ValidatePowerData",
               "MarkStops", "MarkStopsLoop", "CalculateAcceleration",
               "CalculateSpeedVariability", "MarkNonCruising", "MarkNonCruisingStd",
               "MarkNonCruisingSpeed", "CruisingSpeedCalculator", "done", "raised"}
    /\ Len(records) \in 0..MaxLen
    /\ pc \notin {"parse_bytes", "done"} => Len(records) >= 1
    /\ DOMAIN returned.result = DOMAIN NotReturned.result

(***************************************************************************)
(* Properties.                                                             *)
(***************************************************************************)
N == Len(records)

ClassifierSteps == {"CalculateAcceleration", "CalculateSpeedVariability",
                    "MarkNonCruising", "MarkNonCruisingStd", "MarkNonCruisingSpeed"}

\* the step condition of C1
C1_Step ==
    pc \in ClassifierSteps =>
          /\ Len(records') = Len(records)
          /\ \A k \in 1..Len(records) :
                ~records[k].is_cruising => ~records'[k].is_cruising

\* C1: monotonic tightening.  In every step taken after MarkStops has set
\* is_cruising (CalculateAcceleration, CalculateSpeedVariability and the
\* three clearing statements of MarkNonCruising) the ride keeps its length
\* and a sample that is not cruising before the step is not cruising after.
C1_MonotonicTightening == [][C1_Step]_vars

\* a ride that left MarkStops with a cleared sample, lost another sample in
\* MarkNonCruising and still has a cruising one
C1_Witness ==
    /\ pc = "CruisingSpeedCalculator"
    /\ \E k \in 1..N : ~cruising_on_entry[k]
    /\ \E k \in 1..N : cruising_on_entry[k] /\ ~records[k].is_cruising
    /\ \E k \in 1..N : records[k].is_cruising

AfterMarkStops == pc = "CalculateAcceleration"

\* a..b is a maximal run of consecutive stopped samples
IsStopRun(a, b) ==
    /\ a <= b
    /\ \A j \in a..b : records[j].is_stopped
    /\ a = 1 \/ ~records[a - 1].is_stopped
    /\ b = N \/ ~records[b + 1].is_stopped

\* time accumulated by the samples a..b
RECURSIVE RunDuration(_, _)
RunDuration(a, b) ==
    IF b < a THEN R(0)
    ELSE RAdd(RunDuration(a, b - 1),
              IF IsNaN(records[b].time_diff_seconds) THEN R(0)
              ELSE records[b].time_diff_seconds)

\* C2: stop-event retroactivity.  On output of MarkStops, if the time
\* accumulated from the first sample of a run of stopped samples reaches
\* stop_duration_seconds at some sample of the run, then every sample of
\* the run (those before the threshold was reached and those after) is
\* marked non-cruising.
C2_StopRetroactivity ==
    AfterMarkStops =>
        \A a, b \in 1..N :
            IsStopRun(a, b) =>
                \A m \in a..b :
                    RGe(RunDuration(a, m), conf.stop_duration_seconds) =>
                        \A j \in a..b : ~records[j].is_cruising

\* a run whose first sample alone is short of the threshold, that reaches
\* it at a later sample and goes on after it
C2_Witness ==
    /\ AfterMarkStops
    /\ \E a, b \in 1..N :
          /\ IsStopRun(a, b)
          /\ \E m \in (a + 1)..(b - 1) :
                /\ RLt(RunDuration(a, m - 1), conf.stop_duration_seconds)
                /\ RGe(RunDuration(a, m), conf.stop_duration_seconds)
          /\ \A j \in a..b : ~records[j].is_cruising

\* C3: short stops are left untouched.  On output of MarkStops every sample
\* of a maximal run of stopped samples whose accumulated time never reaches
\* stop_duration_seconds is still cruising.
C3_ShortStopsUntouched ==
    AfterMarkStops =>
        \A a, b \in 1..N :
            (/\ IsStopRun(a, b)
             /\ \A m \in a..b : RLt(RunDuration(a, m), conf.stop_duration_seconds))
            => \A j \in a..b : records[j].is_cruising

\* a run of two or more samples that stops one second short of the threshold
C3_Witness ==
    /\ AfterMarkStops
    /\ \E a, b \in 1..N :
          /\ a < b
          /\ IsStopRun(a, b)
          /\ RunDuration(a, b) = RSub(conf.stop_duration_seconds, R(1))
          /\ \A j \in a..b : records[j].is_cruising

StopFlagsSet == pc \notin {"ConvertSpeedToKmh", "SortAndCalculateTimeDiff",
                           "ValidatePowerData", "MarkStops"}

\* C4: stopped-flag composition.  Once MarkStops has set is_stopped, a
\* sample is stopped iff its speed is below the stop threshold, and the ride
\* has no cadence or the sample has a cadence below 10, and the ride has no
\* power or the sample has a power below 30.
C4_StoppedComposition ==
    StopFlagsSet =>
        \A k \in 1..N :
            records[k].is_stopped <=>
                /\ RLt(records[k].speed_kmh, conf.stop_speed_threshold_kmh)
                /\ \/ \A j \in 1..N : IsNaN(records[j].cadence)
                   \/ NotNa(records[k].cadence) /\ RLt(records[k].cadence, R(10))
                /\ \/ \A j \in 1..N : IsNaN(records[j].power)
                   \/ NotNa(records[k].power) /\ RLt(records[k].power, R(30))

\* a slow sample without cadence in a ride that has cadence elsewhere: not
\* stopped, next to a sample stopped on speed, cadence and power
C4_Witness ==
    /\ pc = "MarkStopsLoop"
    /\ \E k, j \in 1..N :
          /\ RLt(records[k].speed_kmh, conf.stop_speed_threshold_kmh)
          /\ IsNaN(records[k].cadence)
          /\ ~records[k].is_stopped
          /\ NotNa(records[j].cadence)
          /\ NotNa(records[j].power)
          /\ records[j].is_stopped

\* C5: after SortAndCalculateTimeDiff on a ride of two or more samples the
\* timestamps ascend, every later sample's delta is its distance to the
\* sample before it (so non-negative), and the first delta is the median of
\* the others when that is positive, else 1.
C5_Normalizer ==
    (pc = "ValidatePowerData" /\ N >= 2) =>
        /\ \A k \in 2..N :
              /\ records[k - 1].timestamp <= records[k].timestamp
              /\ records[k].time_diff_seconds =
                    R(records[k].timestamp - records[k - 1].timestamp)
              /\ records[k].time_diff_seconds.n >= 0
        /\ LET others == [k \in 1..(N - 1) |-> records[k + 1].time_diff_seconds]
               median == MedianSeq(others)
           IN  records[1].time_diff_seconds =
                   IF RGt(median, R(0)) THEN median ELSE R(1)

\* three samples 1 s and 2 s apart: the first delta is the median 1.5
C5_Witness ==
    /\ pc = "ValidatePowerData"
    /\ N = 3
    /\ records[2].time_diff_seconds # records[3].time_diff_seconds
    /\ records[1].time_diff_seconds = Frac(3, 2)

\* C6: a single-sample ride gets time_diff_seconds = 1.0 from the
\* Normalizer and runs through the pipeline without raising.
C6_SingleSample ==
    (N = 1 /\ pc \notin {"ConvertSpeedToKmh", "SortAndCalculateTimeDiff"}) =>
        /\ records[1].time_diff_seconds = R(1)
        /\ pc # "raised"

\* the step condition of C7
C7_Step ==
    pc = "ValidatePowerData" =>
          /\ (\A k \in 1..Len(records) : IsNaN(records[k].power)) => records' = records
          /\ ~conf.interpolate_power_gaps =>
                /\ Len(records') = Len(records)
                /\ \A k \in 1..Len(records) :
                      LET p == records[k].power
                          q == records'[k].power
                      IN  /\ (NotNa(p) /\ p.n < 0) => q = R(0)
                          /\ RGt(p, conf.max_power_threshold) =>
                                IsNaN(q) /\ q # conf.max_power_threshold
                          /\ (RGe(p, R(0)) /\ RLe(p, conf.max_power_threshold)) => q = p

\* C7: ValidatePowerData without interpolation maps a negative power to 0,
\* a power above max_power_threshold to missing (never to the threshold)
\* and leaves every other power as it is; a ride without a power channel
\* is returned unchanged.
C7_PowerClamping == [][C7_Step]_vars

\* a validated ride, interpolation off, holding a clamped 0, an untouched
\* 100 and a missing value
C7_Witness ==
    /\ pc = "MarkStops"
    /\ ~conf.interpolate_power_gaps
    /\ \E k \in 1..N : records[k].power = R(0)
    /\ \E k \in 1..N : records[k].power = R(100)
    /\ \E k \in 1..N : IsNaN(records[k].power)

\* power is missing on entry to the interpolation: missing in the input or
\* above the maximum
MissingBeforeFill(k) ==
    IsNaN(records[k].power) \/ RGt(records[k].power, conf.max_power_threshold)

\* a..b is a maximal run of samples without power
IsMissingRun(a, b) ==
    /\ a <= b
    /\ \A j \in a..b : MissingBeforeFill(j)
    /\ a = 1 \/ ~MissingBeforeFill(a - 1)
    /\ b = Len(records) \/ ~MissingBeforeFill(b + 1)

\* the step condition of C8
C8_Step ==
    (pc = "ValidatePowerData" /\ conf.interpolate_power_gaps
            /\ HasColumn(records, "power")) =>
          \A a, b \in 1..Len(records) :
              IsMissingRun(a, b) =>
                  IF b - a + 1 > conf.max_power_gap_seconds
                  THEN \A j \in a..b : IsNaN(records'[j].power)
                  ELSE (a > 1 /\ b < Len(records)) =>
                          \A j \in a..b : NotNa(records'[j].power)

\* C8: bounded gap filling.  With interpolation on, every sample of a run
\* of missing power longer than max_power_gap_seconds is still missing
\* after ValidatePowerData, and a run no longer than that between two
\* readings is filled.
C8_BoundedGapFilling == [][C8_Step]_vars

EntryRecords == SetColumn(records, "is_cruising", cruising_on_entry)

ClearAccel(recs) == ClearWhere(recs, AccelMasks(recs, conf))

ClearStd(recs) ==
    ClearWhere(recs, StdMasks(recs, ThresholdStdDev(avg_speed_std_cruising, conf)))

ClearSpeed(recs) == ClearWhere(recs, SpeedMasks(recs, conf))

\* C9: the final label is a conjunction.  After MarkNonCruising a sample is
\* cruising iff MarkStops left it cruising, its |acceleration| is at most
\* the acceleration threshold, its rolling std is at most the variability
\* threshold and its speed is at least the cruising floor; the three
\* clearing checks give these labels in whichever order they are applied.
C9_FinalLabelConjunction ==
    pc = "CruisingSpeedCalculator" =>
        /\ \A k \in 1..N :
              records[k].is_cruising <=>
                  /\ cruising_on_entry[k]
                  /\ RLe(RAbs(records[k].acceleration), conf.acceleration_threshold_mps2)
                  /\ RLe(records[k].speed_rolling_std_kmh,
                         ThresholdStdDev(avg_speed_std_cruising, conf))
                  /\ RGe(records[k].speed_kmh, conf.min_cruising_speed_kmh)
        /\ \A final \in {ClearSpeed(ClearStd(ClearAccel(EntryRecords))),
                         ClearStd(ClearSpeed(ClearAccel(EntryRecords))),
                         ClearSpeed(ClearAccel(ClearStd(EntryRecords))),
                         ClearAccel(ClearSpeed(ClearStd(EntryRecords))),
                         ClearStd(ClearAccel(ClearSpeed(EntryRecords))),
                         ClearAccel(ClearStd(ClearSpeed(EntryRecords)))} :
              Column(final, "is_cruising") = Column(records, "is_cruising")

\* a classified ride with a sample cleared for a deceleration alone, one
\* cleared for its speed alone, one above the variability threshold, and
\* one still cruising
C9_Witness ==
    /\ pc = "CruisingSpeedCalculator"
    /\ \E k \in 1..N :
          /\ cruising_on_entry[k]
          /\ records[k].acceleration.n < 0
          /\ AccelMask(records[k], conf)
          /\ ~SpeedMask(records[k], conf)
          /\ ~StdMask(records[k], ThresholdStdDev(avg_speed_std_cruising, conf))
    /\ \E k \in 1..N :
          /\ cruising_on_entry[k]
          /\ ~AccelMask(records[k], conf)
          /\ SpeedMask(records[k], conf)
          /\ ~StdMask(records[k], ThresholdStdDev(avg_speed_std_cruising, conf))
    /\ \E k \in 1..N :
          StdMask(records[k], ThresholdStdDev(avg_speed_std_cruising, conf))
    /\ \E k \in 1..N : records[k].is_cruising

\* sum over the cruising samples 1..k of f(sample) * time_diff_seconds, with
\* f = speed_kmh when weighted by speed and f = 1 otherwise
RECURSIVE CruisingSum(_, _)
CruisingSum(k, bySpeed) ==
    IF k = 0 THEN R(0)
    ELSE RAdd(CruisingSum(k - 1, bySpeed),
              IF records[k].is_cruising
              THEN IF bySpeed
                   THEN RMul(records[k].speed_kmh, records[k].time_diff_seconds)
                   ELSE records[k].time_diff_seconds
              ELSE R(0))

\* C10: on success, cruising_speed is the time-weighted mean of speed_kmh
\* over exactly the cruising samples, cruising_points is their number and
\* cruising_time_seconds the sum of their time deltas.
C10_WeightedCruisingSpeed ==
    (pc = "done" /\ result.success) =>
        /\ result.cruising_time_seconds = CruisingSum(N, FALSE)
        /\ result.cruising_points = Cardinality({k \in 1..N : records[k].is_cruising})
        /\ RMul(result.cruising_speed, CruisingSum(N, FALSE)) = CruisingSum(N, TRUE)
        /\ NotNa(result.cruising_speed)

\* a successful result over part of the ride whose weighted mean differs
\* from the plain mean of the cruising speeds
C10_Witness ==
    /\ pc = "done"
    /\ result.success
    /\ result.cruising_points < result.total_points
    /\ result.cruising_points >= 2
    /\ result.cruising_speed # result.avg_speed

AfterCruisingCalculator == pc = "NormalizedPowerCalculator"

\* the step condition of C11
C11_Step ==
    (pc = "CruisingSpeedCalculator" /\ \A k \in 1..N : ~records[k].is_cruising) =>
        /\ pc' = "NormalizedPowerCalculator"
        /\ result'.keys = {"cruising_speed", "success", "message"}
        /\ result'.success = FALSE
        /\ IsNaN(result'.cruising_speed)
        /\ result'.message = "No cruising data identified"

\* C11: when no sample of the processed ride is cruising, the cruising
\* calculator does not raise and returns success = False, cruising_speed =
\* None and the message 'No cruising data identified'.
C11_NoCruisingData == [][C11_Step]_vars

\* a ride of several samples none of which is cruising has been through the
\* calculator
C11_Witness ==
    /\ AfterCruisingCalculator
    /\ N >= 2
    /\ \A k \in 1..N : ~records[k].is_cruising
    /\ result.message = "No cruising data identified"

\* sum and number of the speed_kmh values of the cruising samples among the
\* first k
RECURSIVE CruisingSpeedSum(_)
CruisingSpeedSum(k) ==
    IF k = 0 THEN R(0)
    ELSE RAdd(CruisingSpeedSum(k - 1),
              IF records[k].is_cruising THEN records[k].speed_kmh ELSE R(0))

CruisingCount == Cardinality({k \in 1..N : records[k].is_cruising})

\* the step condition of C12
C12_Step ==
    (/\ pc = "CruisingSpeedCalculator"
     /\ CruisingCount >= 1
     /\ RLe(CruisingSum(N, FALSE), R(0))) =>
        /\ pc' = "NormalizedPowerCalculator"
        /\ result'.keys = {"cruising_speed", "avg_speed", "success", "message"}
        /\ result'.success = FALSE
        /\ IsNaN(result'.cruising_speed)
        /\ result'.message = "Abnormal total cruising time"
        /\ result'.avg_speed = RDiv(CruisingSpeedSum(N), R(CruisingCount))

\* C12: when some sample is cruising but the time deltas of the cruising
\* samples sum to 0 or less, the cruising calculator does not raise and
\* returns success = False, cruising_speed = None, the message 'Abnormal
\* total cruising time' and avg_speed = the plain mean of the cruising
\* samples' speed_kmh.
C12_AbnormalTotalTime == [][C12_Step]_vars

\* cruising samples that all carry a zero delta have been through the
\* calculator
C12_Witness ==
    /\ AfterCruisingCalculator
    /\ CruisingCount >= 1
    /\ \A k \in 1..N : records[k].is_cruising => records[k].time_diff_seconds = R(0)
    /\ result.message = "Abnormal total cruising time"
    /\ NotNa(result.avg_speed)

\* the cruising samples that have a reading of channel f
WithReading(f) == {k \in 1..N : records[k].is_cruising /\ NotNa(records[k][f])}

\* over the samples of WithReading(f) among the first k: the sum of
\* reading * delta (weighted) or of the deltas
RECURSIVE ChannelSum(_, _, _)
ChannelSum(k, f, weighted) ==
    IF k = 0 THEN R(0)
    ELSE RAdd(ChannelSum(k - 1, f, weighted),
              IF k \in WithReading(f)
              THEN IF weighted
                   THEN RMul(records[k][f], records[k].time_diff_seconds)
                   ELSE records[k].time_diff_seconds
              ELSE R(0))

OptionalMetricOk(key, f) ==
    /\ key \in result.keys <=> WithReading(f) # {}
    /\ key \in result.keys =>
          result[key] = RDiv(ChannelSum(N, f, TRUE), ChannelSum(N, f, FALSE))

\* C13: on a successful cruising result avg_power (avg_cadence,
\* avg_heart_rate) is present iff some cruising sample has a reading of the
\* channel, and is then the sum of reading * delta divided by the sum of the
\* deltas, both taken over the cruising samples that have a reading.
C13_OptionalMetrics ==
    (AfterCruisingCalculator /\ result.success) =>
        /\ OptionalMetricOk("avg_power", "power")
        /\ OptionalMetricOk("avg_cadence", "cadence")
        /\ OptionalMetricOk("avg_heart_rate", "heart_rate")

\* the parsed ride carries nothing but timestamps and speeds
OnlyTimestampAndSpeed ==
    /\ N >= 1
    /\ \A k \in 1..N : /\ IsNaN(records[k].power)
                        /\ IsNaN(records[k].cadence)
                        /\ IsNaN(records[k].heart_rate)

NoPowerData ==
    [NoNPResult EXCEPT !.keys = {"normalized_power", "success", "message"},
                       !.message = "No power data available"]

\* C14: a ride that carries only timestamps and speeds runs through the
\* whole pipeline (nothing raises, a table is returned), its stop flags are
\* those of the speed test alone, no optional metric enters the cruising
\* result, and the NP calculator returns success = False, normalized_power
\* = None and 'No power data available'; so does every ride whose power
\* values are all missing.
C14_NoPowerChannel ==
    /\ OnlyTimestampAndSpeed =>
          /\ pc # "raised"
          /\ pc = "done" => returned.df = RideData(records)
          /\ StopFlagsSet =>
                \A k \in 1..N : records[k].is_stopped <=>
                                   RLt(records[k].speed_kmh, conf.stop_speed_threshold_kmh)
          /\ result.keys \cap {"avg_power", "avg_cadence", "avg_heart_rate"} = {}
    /\ (pc = "MergeResults" /\ \A k \in 1..N : IsNaN(records[k].power)) =>
          np_result = NoPowerData

AfterNPCalculator == pc = "MergeResults"

\* the NP window in samples: np_window_size_seconds divided by the mean
\* sample interval, as the calculator converts it
NPWindowInSamples == WindowPoints(conf.np_window_size_seconds, NPMeanTimeDiff(records))

RideTooShort ==
    /\ np_result.keys = {"normalized_power", "avg_power", "success", "message"}
    /\ ~np_result.success
    /\ np_result.message # "No power data available"

\* C15: for a ride with power data the NP calculator gives the 'ride too
\* short' failure exactly when the ride has fewer samples than the NP window
\* has (window seconds converted with the mean sample interval); the failure
\* still carries avg_power, and every other ride gets success = True.
C15_ShortRideRule ==
    (AfterNPCalculator /\ HasColumn(records, "power")) =>
        /\ RideTooShort <=> N < NPWindowInSamples
        /\ RideTooShort => NotNa(np_result.avg_power)
        /\ N >= NPWindowInSamples => np_result.success

\* every sample has the same power reading p
ConstantPower(p) == \A k \in 1..N : records[k].power = p

\* the ride lasts longer than the NP window, and has more samples than the
\* window has at the ride's mean sample interval
LongerThanNPWindow ==
    /\ RGt(SumSeq(Column(records, "time_diff_seconds")), conf.np_window_size_seconds)
    /\ N > NPWindowInSamples

\* C16: for a ride longer than the NP window whose samples all have the same
\* power P, 0 <= P <= max_power_threshold, the NP calculator succeeds with
\* normalized_power = P, whatever the exponent and the sampling interval.
C16_ConstantPower ==
    (/\ AfterNPCalculator
     /\ N >= 1
     /\ ConstantPower(records[1].power)
     /\ RGe(records[1].power, R(0))
     /\ RLe(records[1].power, conf.max_power_threshold)
     /\ LongerThanNPWindow) =>
        /\ np_result.success
        /\ np_result.normalized_power = records[1].power

\* C17: on a successful NP result intensity_factor is normalized_power /
\* ftp when the configuration has an ftp > 0 and None otherwise (no ftp, or
\* ftp <= 0), and np_to_avg_ratio is normalized_power / avg_power when
\* avg_power > 0 and None otherwise.
C17_IntensityFactorAndRatio ==
    (AfterNPCalculator /\ np_result.success) =>
        /\ {"intensity_factor", "np_to_avg_ratio"} \subseteq np_result.keys
        /\ IF NotNa(conf.ftp) /\ RGt(conf.ftp, R(0))
           THEN /\ NotNa(np_result.intensity_factor)
                /\ RMul(np_result.intensity_factor, conf.ftp) = np_result.normalized_power
           ELSE IsNaN(np_result.intensity_factor)
        /\ IF RGt(np_result.avg_power, R(0))
           THEN /\ NotNa(np_result.np_to_avg_ratio)
                /\ RMul(np_result.np_to_avg_ratio, np_result.avg_power) =
                      np_result.normalized_power
           ELSE IsNaN(np_result.np_to_avg_ratio)

\* a successful result with an FTP of 2 W whose two quotients differ from 1
C17_Witness ==
    /\ AfterNPCalculator
    /\ np_result.success
    /\ conf.ftp = R(2)
    /\ np_result.intensity_factor \notin {NaN, R(1)}
    /\ np_result.np_to_avg_ratio \notin {NaN, R(1)}

\* the upload decodes, but to no message that has a timestamp together with
\* an enhanced speed or a speed (in particular, to no message at all)
NoUsableSample ==
    /\ fit.decodable
    /\ \A k \in 1..Len(fit.messages) :
          \/ fit.messages[k].timestamp = NoTimestamp
          \/ IsNaN(fit.messages[k].enhanced_speed) /\ IsNaN(fit.messages[k].speed)

ParseFailure == Returned(Failure("Failed to parse FIT file data"), None)

\* the step condition of C18
C18_Step ==
    /\ (pc = "parse_bytes" /\ NoUsableSample) =>
          /\ parse_bytes(fit) = None
          /\ pc' = "done"
          /\ returned' = ParseFailure
    /\ (pc = "done" /\ returned = ParseFailure) => pc' = "done"
    /\ returned' = ParseFailure =>
          /\ records' = <<>>
          /\ result' = NoResult
          /\ np_result' = NoNPResult

\* C18: when the decoder yields no message, or none with both a timestamp
\* and a speed (enhanced speed, else speed), parse_bytes returns None, not a
\* ride without records, and process_uploaded_file returns the failure
\* 'Failed to parse FIT file data' with no table; no pipeline stage and no
\* calculator runs before or after.
C18_EmptyRideIngestFailure == [][C18_Step]_vars

\* an upload of MaxMessages messages, all dropped, has been answered
C18_Witness ==
    /\ pc = "done"
    /\ NoUsableSample
    /\ Len(fit.messages) = MaxMessages
    /\ \E k \in 1..Len(fit.messages) : NotNa(fit.messages[k].speed)
    /\ returned = ParseFailure

\* the step condition of C19
C19_Step ==
    /\ pc = "raised" =>
          /\ pc' = "done"
          /\ returned'.result.keys = {"success", "message"}
          /\ ~returned'.result.success
          /\ returned'.result.message = "Processing error: " \o exc
          /\ returned'.df = None
    /\ pc' = "raised" => exc' # ""
    /\ (pc' = "done" /\ pc # "done" /\ returned'.df # None) => pc = "MergeResults"

\* C19: an exception raised by a pipeline stage or a calculator never
\* leaves process_uploaded_file: the next step is the handler, which
\* returns success = False with a message made from the exception and no
\* table; a table is returned only by a run in which nothing raised.
C19_BoundaryErrorContainment == [][C19_Step]_vars

\* a stage has raised and the failure has been returned
C19_Witness ==
    /\ pc = "done"
    /\ N >= 1
    /\ exc # ""
    /\ returned.result.message = "Processing error: 'time_diff_seconds'"
    /\ returned.df = None

InMarkStopsLoop == pc \in {"MarkStopsLoop", "CalculateAcceleration"}

\* the first sample of the run of stopped samples that sample k belongs to
RECURSIVE RunStart(_)
RunStart(k) ==
    IF k = 1 \/ ~records[k - 1].is_stopped THEN k ELSE RunStart(k - 1)

\* C20: while MarkStops loops, after a non-stopped sample no stop event is
\* active and the duration and start index are reset; after a stopped
\* sample the start index is the first sample of that sample's own run and
\* the duration is the time of that run alone; and a sample is marked
\* non-cruising only if it is stopped and its own run, counted from its own
\* first sample, reaches stop_duration_seconds - never because of another
\* run, and never a moving sample.
C20_StopEventReset ==
    InMarkStopsLoop =>
        /\ (i > 1 /\ ~records[i - 1].is_stopped) =>
              /\ ~stop_event_active
              /\ current_stop_duration = R(0)
              /\ stop_start_index = 0
        /\ (i > 1 /\ records[i - 1].is_stopped) =>
              /\ stop_event_active
              /\ stop_start_index = RunStart(i - 1)
              /\ current_stop_duration = RunDuration(RunStart(i - 1), i - 1)
        /\ \A k \in 1..N :
              ~records[k].is_cruising =>
                  /\ records[k].is_stopped
                  /\ \E m \in k..(i - 1) :
                        /\ \A j \in k..m : records[j].is_stopped
                        /\ RGe(RunDuration(RunStart(k), m), conf.stop_duration_seconds)

\* two runs of stopped samples with moving samples between them whose times
\* together reach the threshold: the earlier one is short and stays
\* cruising, with the moving samples, while the later one qualifies and is
\* marked
C20_Witness ==
    /\ AfterMarkStops
    /\ \E a, b, c, d \in 1..N :
          /\ IsStopRun(a, b)
          /\ IsStopRun(c, d)
          /\ b + 1 < c
          /\ RGt(RunDuration(a, b), R(0))
          /\ RLt(RunDuration(a, b), conf.stop_duration_seconds)
          /\ \A j \in a..(c - 1) : records[j].is_cruising
          /\ \A j \in c..d : ~records[j].is_cruising

\* sum of speed_rolling_std_kmh over the samples among the first k that
\* were cruising on entry to MarkNonCruising (over all of them if all is set)
RECURSIVE EntryStdSum(_, _)
EntryStdSum(k, all) ==
    IF k = 0 THEN R(0)
    ELSE RAdd(EntryStdSum(k - 1, all),
              IF all \/ cruising_on_entry[k] THEN records[k].speed_rolling_std_kmh
              ELSE R(0))

EntryCruisingCount == Cardinality({k \in 1..N : cruising_on_entry[k]})

\* mean over the samples cruising on entry, else over all samples, else 0.5
EntryBaseline ==
    IF EntryCruisingCount > 0 THEN RDiv(EntryStdSum(N, FALSE), R(EntryCruisingCount))
    ELSE IF N > 0 THEN RDiv(EntryStdSum(N, TRUE), R(N))
    ELSE Frac(1, 2)

EntryThreshold ==
    IF RGt(EntryBaseline, Frac(1, 100))
    THEN RMul(EntryBaseline, conf.speed_std_dev_threshold_factor)
    ELSE conf.speed_std_dev_threshold_factor

\* the step condition of C21
C21_Step ==
    pc = "MarkNonCruisingStd" =>
        \A k \in 1..N :
            records'[k].is_cruising <=>
                /\ records[k].is_cruising
                /\ ~RGt(records[k].speed_rolling_std_kmh, EntryThreshold)

\* C21: the variability check of MarkNonCruising clears exactly the samples
\* whose rolling std exceeds a threshold fixed on entry to the stage:
\* baseline = mean rolling std over the samples cruising on entry (over all
\* samples when none is, 0.5 when undefined), threshold = baseline * factor
\* when baseline > 0.01, else the factor; what the acceleration check
\* clears in between does not enter it.
C21_VariabilityThreshold == [][C21_Step]_vars

\* the acceleration check has cleared a sample, the baseline taken now
\* would differ from the one taken on entry, and the variability check has
\* cleared a sample with the entry threshold
C21_Witness ==
    /\ pc = "MarkNonCruisingSpeed"
    /\ \E k \in 1..N : /\ cruising_on_entry[k]
                        /\ RGt(RAbs(records[k].acceleration),
                               conf.acceleration_threshold_mps2)
    /\ \E k \in 1..N : /\ cruising_on_entry[k]
                        /\ RLe(RAbs(records[k].acceleration),
                               conf.acceleration_threshold_mps2)
                        /\ RGt(records[k].speed_rolling_std_kmh, EntryThreshold)
    /\ AvgSpeedStdCruising(ClearAccel(EntryRecords)) # EntryBaseline

\* r rounded to the nearest integer, a tie to the even one (Python's round)
RoundOf(r) ==
    LET fl == r.n \div r.d
        twice == 2 * (r.n - fl * r.d)
    IN  IF twice < r.d THEN fl
        ELSE IF twice > r.d THEN fl + 1
        ELSE IF fl % 2 = 0 THEN fl ELSE fl + 1

\* max(1, round(window_seconds / mean_time_diff))
RoundedWindowPoints(window_seconds, mean_time_diff) ==
    Max(1, RoundOf(RDiv(window_seconds, mean_time_diff)))

\* C22: the rolling std of CalculateSpeedVariability and the rolling mean of
\* the NP calculator are taken over max(1, round(window_seconds /
\* mean_time_diff)) samples, the quotient rounded to the nearest integer.
C22_RoundedWindow ==
    /\ pc = "MarkNonCruising" =>
          Column(records, "speed_rolling_std_kmh") =
              BfillFfill(RollingStd(Column(records, "speed_kmh"),
                  RoundedWindowPoints(conf.rolling_window_speed_std,
                                      MeanTimeDiff(records))))
    /\ (AfterNPCalculator /\ np_result.success) =>
          LET w == RoundedWindowPoints(conf.np_window_size_seconds,
                                       NPMeanTimeDiff(records))
              avg == RollingMean(Column(records, "power"), w)
          IN  np_result.normalized_power =
                  Root(MeanSeq([k \in 1..N |-> RPow(avg[k], conf.np_exponent)]),
                       conf.np_exponent)

AfterCalculateAcceleration == pc = "CalculateSpeedVariability"

\* C23: the acceleration guard.  On output of CalculateAcceleration the
\* first sample has acceleration 0, every later sample has (speed[k] -
\* speed[k-1]) / time_diff_seconds[k] when its delta is positive and 0
\* otherwise, and every acceleration is a number (never missing), also for
\* samples with duplicate timestamps.
C23_AccelerationGuard ==
    AfterCalculateAcceleration =>
        \A k \in 1..N :
            /\ NotNa(records[k].acceleration)
            /\ records[k].acceleration =
                  IF k > 1 /\ RGt(records[k].time_diff_seconds, R(0))
                  THEN RDiv(RSub(records[k].speed, records[k - 1].speed),
                            records[k].time_diff_seconds)
                  ELSE R(0)

\* a ride with a change of speed across a duplicate timestamp and another
\* across a positive delta
C23_Witness ==
    /\ AfterCalculateAcceleration
    /\ \E k \in 2..N :
          /\ records[k].timestamp = records[k - 1].timestamp
          /\ records[k].speed # records[k - 1].speed
          /\ records[k].acceleration = R(0)
    /\ \E k \in 2..N :
          /\ records[k].timestamp > records[k - 1].timestamp
          /\ records[k].acceleration # R(0)

\* the positions of the model inside the stages of the default pipeline
PipelineStages == {"ConvertSpeedToKmh", "SortAndCalculateTimeDiff", "ValidatePowerData",
                   "MarkStops", "MarkStopsLoop", "CalculateAcceleration",
                   "CalculateSpeedVariability", "MarkNonCruising",
                   "MarkNonCruisingStd", "MarkNonCruisingSpeed"}

\* the number of messages of the upload that parse_bytes keeps
KeptAtIngest ==
    Cardinality({m \in 1..Len(fit.messages) : KeepsMessage(fit.messages[m])})

\* timestamp and raw speed of a sample
Raw(rec) == <<rec.timestamp, rec.speed>>

\* recs holds the same samples as the current table, in some order
SameSamples(recs) ==
    /\ Len(recs) = N
    /\ \A k \in 1..N :
          Cardinality({j \in 1..N : Raw(recs[j]) = Raw(records[k])}) =
          Cardinality({j \in 1..N : Raw(records[j]) = Raw(records[k])})

C24_Step ==
    /\ (pc = "parse_bytes" /\ pc' = "ConvertSpeedToKmh") =>
          Len(records') = KeptAtIngest
    /\ (pc \in PipelineStages /\ N >= 2 /\ pc' # "raised") =>
          /\ Len(records') = N
          /\ IF pc = "SortAndCalculateTimeDiff"
             THEN SameSamples(records')
             ELSE \A k \in 1..N : Raw(records'[k]) = Raw(records[k])
    /\ (pc = "CruisingSpeedCalculator" /\ N >= 2 /\ result'.success) =>
          /\ result'.total_points = N
          /\ records' = records

\* C24: sample preservation.  parse_bytes keeps the messages that carry a
\* timestamp and a speed; for a ride of two samples or more every stage of
\* the default pipeline hands on as many samples as it received, only
\* SortAndCalculateTimeDiff may change their order, and no stage changes a
\* sample's timestamp or raw speed; so the total_points of a successful
\* cruising result is the number of samples kept at ingest.
C24_SamplePreservation == [][C24_Step]_vars

\* a successful result over a ride of three samples or more, some of them
\* not cruising and two of them with the same timestamp
C24_Witness ==
    /\ AfterCruisingCalculator
    /\ result.success
    /\ N >= 3
    /\ result.total_points = N
    /\ result.cruising_points < N
    /\ \E k \in 2..N : records[k].timestamp = records[k - 1].timestamp

\* C25: only stopped samples are cleared by the StopDetector.  On output of
\* MarkStops every sample with is_cruising = FALSE is stopped and lies in a
\* run of consecutive stopped samples whose accumulated time_diff_seconds
\* is at least stop_duration_seconds; every sample that is not stopped is
\* still cruising.
C25_OnlyStoppedCleared ==
    AfterMarkStops =>
        \A k \in 1..N :
            /\ ~records[k].is_cruising =>
                  /\ records[k].is_stopped
                  /\ \E a \in 1..k, b \in k..N :
                        /\ IsStopRun(a, b)
                        /\ RGe(RunDuration(a, b), conf.stop_duration_seconds)
            /\ ~records[k].is_stopped => records[k].is_cruising

\* a ride with a cleared run, a stopped sample of a shorter run that is
\* still cruising, and a sample that is not stopped
C25_Witness ==
    /\ AfterMarkStops
    /\ \E k \in 1..N : ~records[k].is_cruising
    /\ \E k \in 1..N : records[k].is_stopped /\ records[k].is_cruising
    /\ \E k \in 1..N : ~records[k].is_stopped

====
